---- MODULE Spec2Model ----
(***************************************************************************)
(* A model of the spectrum Visualizer (package spectrum): construction,    *)
(* the stream loop (StartFromReader / StartFromURL / processStream), the   *)
(* accessors (Stop, IsRunning, GetWaveform, Render, GetTrack) and the      *)
(* metadata fetch (FetchTrack).                                            *)
(*                                                                         *)
(* float64 values are fixed-point integers with FixedBits fractional bits; *)
(* Go strings that the code builds or splits are sequences of characters;  *)
(* Go slices are references into a heap of arrays, so that an aliased      *)
(* slice and a copied one are different things.                            *)
(***************************************************************************)
EXTENDS Integers, Sequences, FiniteSets, TLC

(***************************************************************************)
(* Bounds of the model.                                                    *)
(***************************************************************************)
\* fractional bits of the fixed-point representation of float64
FixedBits == 3
\* full chunks the byte source delivers in one run
MaxFrames == 2
\* canvas width used by the stream-loop specification
WidthIn == 2
\* samples per chunk used by the stream-loop specification
ChunkIn == 2

FixedOne == 2 ^ FixedBits

None == "none"

(***************************************************************************)
(* Tasks.                                                                  *)
(***************************************************************************)
LoopTask == "loop"
Stoppers == {"s1"}
Readers == {"r1"}
Fetchers == {"f1", "f2"}
Getters == {"g1"}

(***************************************************************************)
(* Config, DefaultConfig and New.                                          *)
(***************************************************************************)
DefaultConfig ==
    [Width |-> 60, Height |-> 12, SampleRate |-> 44100, ChunkSize |-> 1024,
     FPS |-> 30, SmoothFactor |-> (9 * FixedOne) \div 10, Char |-> <<"|">>,
     BarSpacing |-> 1, Amplify |-> (5 * FixedOne) \div 2, ShowStatus |-> TRUE]

New(cfg) ==
    [Width        |-> IF cfg.Width = 0 THEN 60 ELSE cfg.Width,
     Height       |-> IF cfg.Height = 0 THEN 12 ELSE cfg.Height,
     SampleRate   |-> IF cfg.SampleRate = 0 THEN 44100 ELSE cfg.SampleRate,
     ChunkSize    |-> IF cfg.ChunkSize = 0 THEN 1024 ELSE cfg.ChunkSize,
     FPS          |-> IF cfg.FPS = 0 THEN 30 ELSE cfg.FPS,
     SmoothFactor |-> cfg.SmoothFactor,
     Char         |-> IF cfg.Char = <<>> THEN <<"|">> ELSE cfg.Char,
     BarSpacing   |-> IF cfg.BarSpacing = 0 THEN 1 ELSE cfg.BarSpacing,
     Amplify      |-> IF cfg.Amplify = 0 THEN (5 * FixedOne) \div 2 ELSE cfg.Amplify,
     ShowStatus   |-> cfg.ShowStatus]

\* make([]float64, n)
MakeFloats(n) == [i \in 1..n |-> 0]

\* the zero value of Config
ZeroConfig ==
    [Width |-> 0, Height |-> 0, SampleRate |-> 0, ChunkSize |-> 0, FPS |-> 0,
     SmoothFactor |-> 0, Char |-> <<>>, BarSpacing |-> 0, Amplify |-> 0,
     ShowStatus |-> FALSE]

\* the zero value of TrackInfo
ZeroTrack == [Title |-> <<>>, Artist |-> <<>>, Raw |-> <<>>]

(***************************************************************************)
(* Configs a caller passes to New.                                         *)
(***************************************************************************)
\* every field either left unset or given
ConfigInputs ==
    [Width : {0, WidthIn}, Height : {0, 4}, SampleRate : {0, 8000},
     ChunkSize : {0, ChunkIn}, FPS : {0, 25},
     SmoothFactor : {0, FixedOne \div 2}, Char : {<<>>, <<"#">>},
     BarSpacing : {0, 2}, Amplify : {0, FixedOne}, ShowStatus : BOOLEAN]

\* the configs of the stream-loop specification: the three smoothing factors
LoopConfigs ==
    {[ZeroConfig EXCEPT !.Width = WidthIn, !.Height = 4, !.ChunkSize = ChunkIn,
                        !.SmoothFactor = a, !.Amplify = FixedOne]
        : a \in {0, FixedOne \div 2, FixedOne}}

(***************************************************************************)
(* Fixed-point arithmetic standing for float64 arithmetic.                 *)
(***************************************************************************)
Abs(x) == IF x < 0 THEN -x ELSE x

Sign(x) == IF x < 0 THEN -1 ELSE 1

Min(a, b) == IF a < b THEN a ELSE b

\* n / d rounded to the nearest integer (d > 0), as a float64 operation rounds
RoundDiv(n, d) == Sign(n) * ((2 * Abs(n) + d) \div (2 * d))

\* n / d truncated toward zero (d > 0), as Go's int(float64) truncates
TruncDiv(n, d) == Sign(n) * (Abs(n) \div d)

\* the product of two fixed-point values
Mul(a, b) == RoundDiv(a * b, FixedOne)

\* math.Sqrt of a value of scale FixedOne^2, giving a value of scale FixedOne
Sqrt(x) == CHOOSE r \in 0..x : r * r <= x /\ (r + 1) * (r + 1) > x

(***************************************************************************)
(* The sample demuxer of processStream.                                    *)
(***************************************************************************)
FullScale == 32768

\* the value of a 16-bit pattern as an int16
ToInt16(u) == IF u % 65536 >= FullScale THEN (u % 65536) - 65536 ELSE u % 65536

\* buffer[i] = int16(rawBuffer[i*2]) | int16(rawBuffer[i*2+1])<<8
Demux(rawBuffer, chunkSize) ==
    [i \in 1..chunkSize |-> ToInt16(rawBuffer[2 * i - 1] + 256 * rawBuffer[2 * i])]

(***************************************************************************)
(* convertToWaveform: the column reducer.  Indices are 0-based as in the   *)
(* code; a sequence s holds element i at s[i + 1].                         *)
(***************************************************************************)
RECURSIVE SumSquares(_, _, _)
SumSquares(buffer, start, end) ==
    IF start >= end THEN 0
    ELSE LET value == RoundDiv(buffer[start + 1] * FixedOne, FullScale)
         IN  value * value + SumSquares(buffer, start + 1, end)

\* start := col * samplesPerColumn
ColumnStart(col, samplesPerColumn) == col * samplesPerColumn

\* end := min(start+samplesPerColumn, len(buffer))
ColumnEnd(col, samplesPerColumn, len) ==
    Min(ColumnStart(col, samplesPerColumn) + samplesPerColumn, len)

convertToWaveform(buffer, wf) ==
    LET samplesPerColumn == Len(buffer) \div Len(wf)
    IN  [c \in 1..Len(wf) |->
            LET start == ColumnStart(c - 1, samplesPerColumn)
                end   == ColumnEnd(c - 1, samplesPerColumn, Len(buffer))
            IN  IF samplesPerColumn > 0
                THEN Sqrt(SumSquares(buffer, start, end) \div samplesPerColumn)
                ELSE wf[c]]

(***************************************************************************)
(* The smoothing recurrence of processStream, one element.                 *)
(***************************************************************************)
\* the recurrence with its two weights exchanged
SmoothElemSwapped(s, w, alpha) == Mul(s, alpha) + Mul(w, FixedOne - alpha)

SmoothElem(s, w, alpha) == Mul(s, FixedOne - alpha) + Mul(w, alpha)

(***************************************************************************)
(* renderFrame: the frame as the sequence of the characters written.       *)
(***************************************************************************)
RECURSIVE Flatten(_)
Flatten(ss) == IF ss = <<>> THEN <<>> ELSE Head(ss) \o Flatten(Tail(ss))

\* a bar height that is not held to midline - 1
BarHeightUnclamped(cfg, value) ==
    LET midline == cfg.Height \div 2
    IN  TruncDiv(value * cfg.Amplify * (midline - 1), FixedOne * FixedOne)

BarHeight(cfg, value) ==
    LET midline == cfg.Height \div 2
        height  == TruncDiv(value * cfg.Amplify * (midline - 1), FixedOne * FixedOne)
    IN  Min(height, midline - 1)

Cell(cfg, wf, row, col) ==
    IF cfg.BarSpacing > 1 /\ col % cfg.BarSpacing # 0 THEN <<" ">>
    ELSE LET waveIdx == IF cfg.BarSpacing > 1 THEN col \div cfg.BarSpacing ELSE col
         IN  IF waveIdx >= Len(wf) THEN <<" ">>
             ELSE LET midline == cfg.Height \div 2
                      height  == BarHeight(cfg, wf[waveIdx + 1])
                  IN  IF row >= midline - height /\ row <= midline + height /\ height > 0
                      THEN cfg.Char
                      ELSE <<" ">>

\* a status line written whether or not ShowStatus is set
StatusLineAlways(cfg) ==
    <<"Audio Visualizer | ", ToString(cfg.SampleRate), "Hz | ",
      ToString(cfg.ChunkSize), " samples | ", ToString(cfg.FPS), " FPS", "\n">>

StatusLine(cfg) ==
    IF cfg.ShowStatus
    THEN <<"Audio Visualizer | ", ToString(cfg.SampleRate), "Hz | ",
           ToString(cfg.ChunkSize), " samples | ", ToString(cfg.FPS), " FPS", "\n">>
    ELSE <<>>

renderFrame(cfg, wf) ==
    <<"ESC[2;0H", "ESC[?25l">>
    \o Flatten([r \in 1..cfg.Height |->
                  Flatten([c \in 1..cfg.Width |-> Cell(cfg, wf, r - 1, c - 1)])
                  \o <<"\n">>])
    \o StatusLine(cfg)

(***************************************************************************)
(* The byte source: what one io.ReadFull of 2 x ChunkSize bytes can do.    *)
(***************************************************************************)
\* a chunk whose first `quiet` samples are 0 and whose others are lo, hi
ChunkOf(chunkSize, quiet, lo, hi) ==
    [k \in 1..(2 * chunkSize) |->
        IF (k + 1) \div 2 <= quiet THEN 0 ELSE IF k % 2 = 1 THEN lo ELSE hi]

\* silence, full scale (32767), a step from silence to full scale, -32768
Chunks(chunkSize) ==
    { ChunkOf(chunkSize, chunkSize, 0, 0), ChunkOf(chunkSize, 0, 255, 127),
      ChunkOf(chunkSize, chunkSize \div 2, 255, 127), ChunkOf(chunkSize, 0, 0, 128) }

(***************************************************************************)
(* State.                                                                  *)
(***************************************************************************)
VARIABLES
    newArg,        \* the Config passed to New
    constructed,   \* New has returned
    config,        \* v.config
    heap,          \* the arrays slices refer to; v.smoothed is heap["smoothed"]
    track,         \* v.track
    streamURL,     \* v.streamURL
    mu,            \* v.mu: [writer, readers]
    cancelSet,     \* v.cancel != nil
    running,       \* v.running
    parentDone,    \* the caller's context is cancelled
    cancelCalled,  \* v.cancel() has been called
    ffmpeg,        \* the decoding process: none, running, killed
    pc,            \* where the start operation / processStream is
    startKind,     \* reader or url
    waveform,      \* processStream's local waveform
    idx,           \* the smoothing loop's i
    outcome,       \* what the start operation returned
    frame,         \* the string Render returned to processStream
    loopAcq,       \* the committed vector when that Render acquired the guard
    stdout,        \* the last frame printed
    frames,        \* frames printed
    updates,       \* smoothing updates completed
    committed,     \* v.smoothed as of the last completed smoothing update
    lastRaw,       \* the profile of the last completed smoothing update
    lastRead,      \* how the last read ended
    readsDone,     \* some read has returned
    cancelEarly,   \* cancellation was signalled before any read had returned
    inFlight,      \* an iteration was in progress, its frame not yet printed,
                   \* when cancellation was signalled
    readsAfter,    \* reads issued after cancellation was signalled
    framesAfter,   \* frames printed after cancellation was signalled
    spc,           \* where each Stop call is
    rpc,           \* where each GetWaveform / Render call is
    rkind,         \* which of the two it is
    ret,           \* the slice GetWaveform returned (a reference)
    rstr,          \* the string Render returned
    acq,           \* the committed vector when the call acquired the guard
    snap,          \* the vector the call read
    tpc,           \* where each FetchTrack / GetTrack call is
    probe,         \* the tags ffprobe gave each FetchTrack
    tret,          \* the TrackInfo each call returned
    pending,       \* the field writes each FetchTrack has still to make
    tbase          \* v.track when the FetchTrack holding the guard locked it

ctorVars  == <<newArg, constructed, config>>
ctxVars   == <<parentDone, cancelCalled, ffmpeg>>
loopVars  == <<pc, startKind, waveform, idx, outcome, frame, loopAcq, stdout>>
histVars  == <<frames, updates, committed, lastRaw, lastRead, readsDone>>
cancVars  == <<cancelEarly, inFlight, readsAfter, framesAfter>>
stopVars  == <<spc>>
readVars  == <<rpc, rkind, ret, rstr, acq, snap>>
trackVars == <<track, tpc, probe, tret, pending, tbase>>

vars == <<ctorVars, heap, streamURL, mu, cancelSet, running, ctxVars, loopVars,
          histVars, cancVars, stopVars, readVars, trackVars>>

\* ctx.Done() is closed
ctxDone == parentDone \/ cancelCalled

Smoothed == heap["smoothed"]

(***************************************************************************)
(* The state New returns, with no call in progress.                        *)
(***************************************************************************)
\* no call in progress, nothing started
Quiescent ==
    /\ track = ZeroTrack
    /\ streamURL = <<>>
    /\ mu = [writer |-> None, readers |-> {}]
    /\ cancelSet = FALSE
    /\ running = FALSE
    /\ parentDone = FALSE
    /\ cancelCalled = FALSE
    /\ ffmpeg = "none"
    /\ pc = "idle"
    /\ startKind = None
    /\ waveform = <<>>
    /\ idx = 0
    /\ outcome = None
    /\ frame = <<>>
    /\ loopAcq = <<>>
    /\ stdout = <<>>
    /\ frames = 0
    /\ updates = 0
    /\ lastRaw = <<>>
    /\ lastRead = None
    /\ readsDone = FALSE
    /\ cancelEarly = FALSE
    /\ inFlight = FALSE
    /\ readsAfter = 0
    /\ framesAfter = 0
    /\ spc = [s \in Stoppers |-> "idle"]
    /\ rpc = [r \in Readers |-> "idle"]
    /\ rkind = [r \in Readers |-> None]
    /\ ret = [r \in Readers |-> None]
    /\ rstr = [r \in Readers |-> <<>>]
    /\ acq = [r \in Readers |-> <<>>]
    /\ snap = [r \in Readers |-> <<>>]
    /\ tpc = [t \in Fetchers \cup Getters |-> "idle"]
    /\ probe = [t \in Fetchers |-> <<>>]
    /\ tret = [t \in Fetchers \cup Getters |-> <<>>]
    /\ pending = [t \in Fetchers |-> <<>>]
    /\ tbase = ZeroTrack

\* what New builds from cfg
Built(cfg) ==
    /\ config = New(cfg)
    /\ heap = [a \in {"smoothed"} \cup Readers |->
                 IF a = "smoothed" THEN MakeFloats(New(cfg).Width) ELSE <<>>]
    /\ committed = MakeFloats(New(cfg).Width)

Fresh(cfg) == newArg = cfg /\ Built(cfg) /\ Quiescent

Init == constructed = TRUE /\ \E cfg \in LoopConfigs : Fresh(cfg)

(***************************************************************************)
(* v.mu, a sync.RWMutex.  A blocked Lock call keeps new readers out.       *)
(***************************************************************************)
WriterWaiting == pc = "lock" \/ \E f \in Fetchers : tpc[f] = "lock"

CanLock == mu.writer = None /\ mu.readers = {}

\* an RLock that does not wait for the writer holding the guard
CanRLockDespiteWriter == ~WriterWaiting

CanRLock == mu.writer = None /\ ~WriterWaiting

Lock(t) == [mu EXCEPT !.writer = t]

\* an Unlock that releases nothing
UnlockForgotten == mu

Unlock == [mu EXCEPT !.writer = None]

RLock(t) == [mu EXCEPT !.readers = @ \cup {t}]

RUnlock(t) == [mu EXCEPT !.readers = @ \ {t}]

(***************************************************************************)
(* Cancellation: the caller's context, or v.cancel called by Stop.         *)
(***************************************************************************)
\* the places from which the iteration in progress still prints its frame
BeforePrint == {"read", "lock", "smooth", "unlock", "render", "rendering", "print"}

\* the history of the first cancellation signal
NoteCancel ==
    IF ctxDone THEN UNCHANGED cancVars
    ELSE /\ cancelEarly' = ~readsDone
         /\ inFlight' = (pc \in BeforePrint)
         /\ UNCHANGED <<readsAfter, framesAfter>>

CancelParent ==
    /\ ~parentDone
    /\ parentDone' = TRUE
    /\ NoteCancel
    /\ UNCHANGED <<ctorVars, heap, streamURL, mu, cancelSet, running, cancelCalled,
                   ffmpeg, loopVars, histVars, stopVars, readVars, trackVars>>

\* Stop, up to the call of v.cancel
StopCancel(s) ==
    /\ spc[s] = "idle"
    /\ spc' = [spc EXCEPT ![s] = "clear"]
    /\ IF cancelSet
       THEN cancelCalled' = TRUE /\ NoteCancel
       ELSE UNCHANGED <<cancelCalled, cancVars>>
    /\ UNCHANGED <<ctorVars, heap, streamURL, mu, cancelSet, running, parentDone,
                   ffmpeg, loopVars, histVars, readVars, trackVars>>

\* Stop: v.running = false
StopClear(s) ==
    /\ spc[s] = "clear"
    /\ spc' = [spc EXCEPT ![s] = "idle"]
    /\ running' = FALSE
    /\ UNCHANGED <<ctorVars, heap, streamURL, mu, cancelSet, ctxVars, loopVars,
                   histVars, cancVars, readVars, trackVars>>

IsRunning == running

(***************************************************************************)
(* StartFromReader and StartFromURL, up to the call of processStream.      *)
(***************************************************************************)
URL == <<"u">>

\* ctx, v.cancel = context.WithCancel(ctx)
StartCancel(kind) ==
    /\ pc = "idle"
    /\ pc' = "start"
    /\ startKind' = kind
    /\ cancelSet' = TRUE
    /\ UNCHANGED <<ctorVars, heap, streamURL, mu, running, ctxVars, waveform, idx,
                   outcome, frame, loopAcq, stdout, histVars, cancVars, stopVars,
                   readVars, trackVars>>

\* processStream's buffers
EnterLoop ==
    /\ waveform' = MakeFloats(config.Width)
    /\ pc' = "check"

\* StartFromReader: v.running = true, and into processStream
StartFromReader ==
    /\ pc = "start" /\ startKind = "reader"
    /\ running' = TRUE
    /\ EnterLoop
    /\ UNCHANGED <<ctorVars, heap, streamURL, mu, cancelSet, ctxVars, startKind, idx,
                   outcome, frame, loopAcq, stdout, histVars, cancVars, stopVars,
                   readVars, trackVars>>

\* StartFromURL: v.running = true; v.streamURL = streamURL
StartFromURL ==
    /\ pc = "start" /\ startKind = "url"
    /\ running' = TRUE
    /\ streamURL' = URL
    /\ pc' = "pipe"
    /\ UNCHANGED <<ctorVars, heap, mu, cancelSet, ctxVars, startKind, waveform, idx,
                   outcome, frame, loopAcq, stdout, histVars, cancVars, stopVars,
                   readVars, trackVars>>

\* StartFromURL: visCmd.StdoutPipe()
StdoutPipe ==
    /\ pc = "pipe"
    /\ \E ok \in BOOLEAN :
          IF ok THEN pc' = "launch" /\ outcome' = outcome
          ELSE pc' = "done" /\ outcome' = "pipe_error"
    /\ UNCHANGED <<ctorVars, heap, streamURL, mu, cancelSet, running, ctxVars,
                   startKind, waveform, idx, frame, loopAcq, stdout, histVars,
                   cancVars, stopVars, readVars, trackVars>>

\* StartFromURL: visCmd.Start(), and into processStream
LaunchFfmpeg ==
    /\ pc = "launch"
    /\ \E ok \in BOOLEAN :
          IF ok THEN ffmpeg' = "running" /\ EnterLoop /\ outcome' = outcome
          ELSE pc' = "done" /\ outcome' = "launch_error"
               /\ UNCHANGED <<ffmpeg, waveform>>
    /\ UNCHANGED <<ctorVars, heap, streamURL, mu, cancelSet, running, parentDone,
                   cancelCalled, startKind, idx, frame, loopAcq, stdout, histVars,
                   cancVars, stopVars, readVars, trackVars>>

\* StartFromURL's goroutine: <-ctx.Done(); visCmd.Process.Kill()
KillFfmpeg ==
    /\ ffmpeg = "running" /\ ctxDone
    /\ ffmpeg' = "killed"
    /\ UNCHANGED <<ctorVars, heap, streamURL, mu, cancelSet, running, parentDone,
                   cancelCalled, loopVars, histVars, cancVars, stopVars, readVars,
                   trackVars>>

(***************************************************************************)
(* processStream.                                                          *)
(***************************************************************************)
\* what io.ReadFull returns: a full chunk, io.EOF before any byte,
\* io.ErrUnexpectedEOF after some, or the source's own error
ReadResults ==
    { [n |-> 0, err |-> "EOF"], [n |-> 1, err |-> "ErrUnexpectedEOF"],
      [n |-> 0, err |-> "ErrClosedPipe"], [n |-> 1, err |-> "ErrClosedPipe"] }

\* the branches after io.ReadFull, with only io.EOF taken as transient
ReadDispositionEOFOnly(n, err, len) ==
    IF err # None
    THEN IF err = "EOF" THEN "continue" ELSE "return"
    ELSE IF n < len THEN "continue" ELSE "process"

\* the branches after io.ReadFull
ReadDisposition(n, err, len) ==
    IF err # None
    THEN IF err = "EOF" \/ err = "ErrUnexpectedEOF" THEN "continue" ELSE "return"
    ELSE IF n < len THEN "continue" ELSE "process"

\* a retry that goes straight back to the read
ContinueToRead == "read"

\* where `continue` leads: the top of the for loop
ContinueTarget == "check"

Bump(n) == Min(n + 1, 2)

\* the select on ctx.Done() at the top of the loop and, when the context is
\* live, the call of io.ReadFull.  Between the two the loop only reads the
\* clock, so the read is in flight from the moment the check passes.
LoopCheck ==
    /\ pc = "check"
    /\ IF ctxDone
       THEN /\ running' = FALSE
            /\ outcome' = "canceled"
            /\ pc' = "done"
       ELSE /\ pc' = "read"
            /\ UNCHANGED <<running, outcome>>
    /\ UNCHANGED <<ctorVars, heap, streamURL, mu, cancelSet, ctxVars, startKind,
                   waveform, idx, frame, loopAcq, stdout, histVars, cancVars,
                   stopVars, readVars, trackVars>>

\* io.ReadFull returns a full chunk: demux and convertToWaveform
ReadChunk ==
    /\ pc = "read"
    /\ updates < MaxFrames
    /\ \E raw \in Chunks(config.ChunkSize) :
          /\ ReadDisposition(Len(raw), None, 2 * config.ChunkSize) = "process"
          /\ waveform' = convertToWaveform(Demux(raw, config.ChunkSize), waveform)
    /\ pc' = "lock"
    /\ lastRead' = "full"
    /\ readsDone' = TRUE
    /\ UNCHANGED <<ctorVars, heap, streamURL, mu, cancelSet, running, ctxVars,
                   startKind, idx, outcome, frame, loopAcq, stdout, frames, updates,
                   committed, lastRaw, cancVars, stopVars, readVars, trackVars>>

\* io.ReadFull returns an error
ReadFails ==
    /\ pc = "read"
    /\ \E res \in ReadResults :
          LET d == ReadDisposition(res.n, res.err, 2 * config.ChunkSize)
          IN  /\ lastRead' = res.err
              /\ IF d = "return"
                 THEN /\ pc' = "done"
                      /\ outcome' = res.err
                      /\ UNCHANGED cancVars
                 ELSE /\ pc' = ContinueTarget
                      /\ outcome' = outcome
                      /\ IF ContinueTarget = "read" /\ ctxDone
                         THEN /\ readsAfter' = Bump(readsAfter)
                              /\ UNCHANGED <<cancelEarly, inFlight, framesAfter>>
                         ELSE UNCHANGED cancVars
    /\ readsDone' = TRUE
    /\ UNCHANGED <<ctorVars, heap, streamURL, mu, cancelSet, running, ctxVars,
                   startKind, waveform, idx, frame, loopAcq, stdout, frames, updates,
                   committed, lastRaw, stopVars, readVars, trackVars>>

\* v.mu.Lock()
LoopLock ==
    /\ pc = "lock"
    /\ CanLock
    /\ mu' = Lock(LoopTask)
    /\ idx' = 0
    /\ pc' = "smooth"
    /\ UNCHANGED <<ctorVars, heap, streamURL, cancelSet, running, ctxVars, startKind,
                   waveform, outcome, frame, loopAcq, stdout, histVars, cancVars,
                   stopVars, readVars, trackVars>>

\* one pass of the smoothing loop: v.smoothed[i] = ...
LoopSmooth ==
    /\ pc = "smooth"
    /\ LET new == [Smoothed EXCEPT ![idx + 1] =
                      SmoothElem(Smoothed[idx + 1], waveform[idx + 1], config.SmoothFactor)]
       IN  /\ heap' = [heap EXCEPT !["smoothed"] = new]
           /\ idx' = idx + 1
           /\ IF idx + 1 = Len(waveform)
              THEN /\ pc' = "unlock"
                   /\ updates' = updates + 1
                   /\ committed' = new
                   /\ lastRaw' = waveform
              ELSE UNCHANGED <<pc, updates, committed, lastRaw>>
    /\ UNCHANGED <<ctorVars, streamURL, mu, cancelSet, running, ctxVars, startKind,
                   waveform, outcome, frame, loopAcq, stdout, frames, lastRead,
                   readsDone, cancVars, stopVars, readVars, trackVars>>

\* an iteration that goes from the update to the pacing sleep
SkipRender == "sleep"

\* after the update the iteration calls fmt.Print(v.Render())
AfterUpdate == "render"

\* v.mu.Unlock()
LoopUnlock ==
    /\ pc = "unlock"
    /\ mu' = Unlock
    /\ pc' = AfterUpdate
    /\ UNCHANGED <<ctorVars, heap, streamURL, cancelSet, running, ctxVars, startKind,
                   waveform, idx, outcome, frame, loopAcq, stdout, histVars, cancVars,
                   stopVars, readVars, trackVars>>

\* v.Render(): v.mu.RLock()
LoopRLock ==
    /\ pc = "render"
    /\ CanRLock
    /\ mu' = RLock(LoopTask)
    /\ loopAcq' = committed
    /\ pc' = "rendering"
    /\ UNCHANGED <<ctorVars, heap, streamURL, cancelSet, running, ctxVars, startKind,
                   waveform, idx, outcome, frame, stdout, histVars, cancVars,
                   stopVars, readVars, trackVars>>

\* v.Render(): renderFrame(v.smoothed) and the deferred RUnlock
LoopRender ==
    /\ pc = "rendering"
    /\ frame' = renderFrame(config, Smoothed)
    /\ mu' = RUnlock(LoopTask)
    /\ pc' = "print"
    /\ UNCHANGED <<ctorVars, heap, streamURL, cancelSet, running, ctxVars, startKind,
                   waveform, idx, outcome, loopAcq, stdout, histVars, cancVars,
                   stopVars, readVars, trackVars>>

\* fmt.Print(...)
LoopPrint ==
    /\ pc = "print"
    /\ stdout' = frame
    /\ frames' = frames + 1
    /\ framesAfter' = IF ctxDone THEN Bump(framesAfter) ELSE framesAfter
    /\ pc' = "sleep"
    /\ UNCHANGED <<ctorVars, heap, streamURL, mu, cancelSet, running, ctxVars,
                   startKind, waveform, idx, outcome, frame, loopAcq, updates,
                   committed, lastRaw, lastRead, readsDone, cancelEarly, inFlight,
                   readsAfter, stopVars, readVars, trackVars>>

\* time.Sleep(updateInterval - elapsed), or nothing when over budget
LoopSleep ==
    /\ pc = "sleep"
    /\ pc' = "check"
    /\ UNCHANGED <<ctorVars, heap, streamURL, mu, cancelSet, running, ctxVars,
                   startKind, waveform, idx, outcome, frame, loopAcq, stdout,
                   histVars, cancVars, stopVars, readVars, trackVars>>

(***************************************************************************)
(* GetWaveform and Render, called by other tasks.                          *)
(***************************************************************************)
\* GetWaveform returning v.smoothed itself
GetWaveformAlias(r) == "smoothed"

\* the slice GetWaveform returns: result, the array it made
GetWaveformResult(r) == r

\* the call of GetWaveform or of Render
ReaderCall(r) ==
    /\ rpc[r] = "idle"
    /\ \E k \in {"GetWaveform", "Render"} : rkind' = [rkind EXCEPT ![r] = k]
    /\ ret' = [ret EXCEPT ![r] = None]
    /\ rstr' = [rstr EXCEPT ![r] = <<>>]
    /\ snap' = [snap EXCEPT ![r] = <<>>]
    /\ rpc' = [rpc EXCEPT ![r] = "call"]
    /\ UNCHANGED <<ctorVars, heap, streamURL, mu, cancelSet, running, ctxVars,
                   loopVars, histVars, cancVars, stopVars, acq, trackVars>>

\* v.mu.RLock()
ReaderRLock(r) ==
    /\ rpc[r] = "call"
    /\ CanRLock
    /\ mu' = RLock(r)
    /\ acq' = [acq EXCEPT ![r] = committed]
    /\ rpc' = [rpc EXCEPT ![r] = "locked"]
    /\ UNCHANGED <<ctorVars, heap, streamURL, cancelSet, running, ctxVars, loopVars,
                   histVars, cancVars, stopVars, rkind, ret, rstr, snap, trackVars>>

\* GetWaveform: result := make(...); copy(result, v.smoothed).
\* Render: renderFrame(v.smoothed)
ReaderRead(r) ==
    /\ rpc[r] = "locked"
    /\ snap' = [snap EXCEPT ![r] = Smoothed]
    /\ IF rkind[r] = "GetWaveform"
       THEN heap' = [heap EXCEPT ![r] = Smoothed] /\ UNCHANGED rstr
       ELSE rstr' = [rstr EXCEPT ![r] = renderFrame(config, Smoothed)] /\ UNCHANGED heap
    /\ rpc' = [rpc EXCEPT ![r] = "read"]
    /\ UNCHANGED <<ctorVars, streamURL, mu, cancelSet, running, ctxVars, loopVars,
                   histVars, cancVars, stopVars, rkind, ret, acq, trackVars>>

\* the deferred v.mu.RUnlock() and the return
ReaderReturn(r) ==
    /\ rpc[r] = "read"
    /\ mu' = RUnlock(r)
    /\ ret' = [ret EXCEPT ![r] = IF rkind[r] = "GetWaveform"
                                 THEN GetWaveformResult(r) ELSE None]
    /\ rpc' = [rpc EXCEPT ![r] = "idle"]
    /\ UNCHANGED <<ctorVars, heap, streamURL, cancelSet, running, ctxVars, loopVars,
                   histVars, cancVars, stopVars, rkind, rstr, acq, snap, trackVars>>

(***************************************************************************)
(* Specifications: the start operations and the stream loop, with the      *)
(* tasks that cancel and stop it (Spec) or with the tasks that read the    *)
(* smoothed vector (SpecRead).                                             *)
(***************************************************************************)
LoopNext ==
    \/ \E k \in {"reader", "url"} : StartCancel(k)
    \/ StartFromReader
    \/ StartFromURL
    \/ StdoutPipe
    \/ LaunchFfmpeg
    \/ KillFfmpeg
    \/ LoopCheck
    \/ ReadChunk
    \/ ReadFails
    \/ LoopLock
    \/ LoopSmooth
    \/ LoopUnlock
    \/ LoopRLock
    \/ LoopRender
    \/ LoopPrint
    \/ LoopSleep

StopNext == \E s \in Stoppers : StopCancel(s) \/ StopClear(s)

ReadNext ==
    \E r \in Readers :
        ReaderCall(r) \/ ReaderRLock(r) \/ ReaderRead(r) \/ ReaderReturn(r)

Next == LoopNext \/ CancelParent \/ StopNext

Spec == Init /\ [][Next]_vars

NextRead == LoopNext \/ CancelParent \/ ReadNext

SpecRead == Init /\ [][NextRead]_vars

\* the scheduler runs the loop's task, and a read in flight returns.  The
\* smoothing factor plays no part in how the loop ends: it is fixed here.
InitFair ==
    /\ constructed = TRUE
    /\ \E cfg \in LoopConfigs : cfg.SmoothFactor = FixedOne \div 2 /\ Fresh(cfg)

FairSpec == InitFair /\ [][Next]_vars /\ WF_vars(LoopNext)

(***************************************************************************)
(* Claims about the stream loop's termination and Run State.               *)
(***************************************************************************)
\* processStream is executing
LoopPcs == {"check", "read", "lock", "smooth", "unlock", "render", "rendering",
            "print", "sleep"}

\* processStream has returned
LoopReturned == pc = "done" /\ outcome \notin {"pipe_error", "launch_error"}

\* C1: whenever the stream loop returns, with the cancellation outcome or
\* with a hard read error, IsRunning is false afterwards.
C1_ReturnClearsRunning == LoopReturned => ~IsRunning

\* C2: if cancellation is signalled before any read has completed, the loop
\* returns the cancellation outcome, never a hard error, whatever the read in
\* flight does, and IsRunning is false afterwards.
C2_EarlyCancelOutcome ==
    (LoopReturned /\ cancelEarly) => (outcome = "canceled" /\ ~IsRunning)

C4_ShortfallRetried ==
    /\ [][(pc = "read" /\ pc' # "read" /\ lastRead' \in {"EOF", "ErrUnexpectedEOF"})
            => /\ pc' = "check"
               /\ outcome' = None
               /\ heap' = heap
               /\ frames' = frames
               /\ stdout' = stdout]_vars
    /\ [](LoopReturned =>
            \/ outcome = "canceled" /\ ctxDone
            \/ outcome = "ErrClosedPipe" /\ lastRead = "ErrClosedPipe")

\* C4's case: after a frame, a short read sent the loop back to its check.
C4_Witness ==
    /\ lastRead = "ErrUnexpectedEOF" /\ pc = "check"
    /\ updates >= 1 /\ outcome = None

\* C8: from the start of the stream loop until it returns, IsRunning is true.
C8_RunningWhileLoop == pc \in LoopPcs => IsRunning

\* C10: with smoothing factor 0 the smoothed vector stays all zero; with
\* smoothing factor 1 it equals the raw profile of the last frame.
C10_SmoothingEndpoints ==
    /\ config.SmoothFactor = 0 => Smoothed = MakeFloats(config.Width)
    /\ (config.SmoothFactor = FixedOne /\ updates >= 1 /\ pc # "smooth")
          => Smoothed = lastRaw

\* C10's case: factor 1, two frames, the second quieter than the first.
C10_Witness ==
    /\ config.SmoothFactor = FixedOne /\ updates = 2 /\ pc = "unlock"
    /\ Smoothed = lastRaw
    /\ \E i \in 1..Len(lastRaw) : lastRaw[i] = 0 /\ stdout # <<>>
                                   /\ stdout # renderFrame(config, lastRaw)

(***************************************************************************)
(* Claims about the readers of the smoothed vector.                        *)
(***************************************************************************)
\* C6: a GetWaveform or Render call sees the smoothed vector as the latest
\* smoothing update completed when it acquired the guard left it, never a
\* vector updated in part; the vector is in a partly updated state only
\* while the stream loop holds the guard exclusively.
C6_ReadersSeeWholeUpdates ==
    /\ \A r \in Readers :
          rpc[r] = "read" =>
             /\ snap[r] = acq[r]
             /\ rkind[r] = "GetWaveform" => heap[r] = acq[r]
             /\ rkind[r] = "Render" => rstr[r] = renderFrame(config, acq[r])
    /\ pc = "print" => frame = renderFrame(config, loopAcq)
    /\ Smoothed # committed => (mu.writer = LoopTask /\ mu.readers = {})

\* C6's case: a reader holds the guard on the vector of the first update
\* while the loop, with the next chunk read, waits to write.
C6_Witness ==
    /\ rpc["r1"] = "read" /\ rkind["r1"] = "GetWaveform"
    /\ updates = 1 /\ pc = "lock"
    /\ snap["r1"] = committed /\ waveform # committed
    /\ \E i \in 1..Len(committed) : committed[i] # 0

\* C7: the slice GetWaveform returned keeps the values the smoothed vector
\* had at the call, whatever the stream loop writes afterwards.
C7_CopyIndependent ==
    \A r \in Readers : ret[r] # None => heap[ret[r]] = snap[r]

\* C7's case: a copy returned, and the smoothed vector updated since.
C7_Witness ==
    /\ ret["r1"] # None /\ rpc["r1"] = "idle"
    /\ heap[ret["r1"]] = snap["r1"]
    /\ Smoothed # snap["r1"] /\ pc = "sleep"

(***************************************************************************)
(* New, applied to every Config a caller can pass.                         *)
(***************************************************************************)
InitNew ==
    /\ constructed = FALSE
    /\ newArg \in ConfigInputs
    /\ config = ZeroConfig
    /\ heap = [a \in {"smoothed"} \cup Readers |-> <<>>]
    /\ committed = <<>>
    /\ Quiescent

NewVisualizer ==
    /\ ~constructed
    /\ constructed' = TRUE
    /\ config' = New(newArg)
    /\ heap' = [heap EXCEPT !["smoothed"] = MakeFloats(New(newArg).Width)]
    /\ committed' = MakeFloats(New(newArg).Width)
    /\ UNCHANGED <<newArg, streamURL, mu, cancelSet, running, ctxVars, loopVars,
                   frames, updates, lastRaw, lastRead, readsDone, cancVars, stopVars,
                   readVars, trackVars>>

SpecNew == InitNew /\ [][NewVisualizer]_vars

\* the numeric fields of Config
NumericFields == {"Width", "Height", "SampleRate", "ChunkSize", "FPS",
                  "SmoothFactor", "BarSpacing", "Amplify"}

\* C9: after New no numeric field of the configuration is zero: a field
\* left at zero has its default, a non-zero field is kept.
C9_NoZeroField ==
    constructed =>
        \A f \in NumericFields :
            /\ config[f] # 0
            /\ config[f] = IF newArg[f] = 0 THEN DefaultConfig[f] ELSE newArg[f]

(***************************************************************************)
(* strings.SplitN(s, sep, 2) and strings.TrimSpace on character sequences. *)
(***************************************************************************)
\* strings.Index: the 0-based place of the first sep in s, or -1
Index(s, sep) ==
    LET hits == {i \in 1..(Len(s) - Len(sep) + 1) : SubSeq(s, i, i + Len(sep) - 1) = sep}
    IN  IF hits = {} THEN -1 ELSE (CHOOSE i \in hits : \A j \in hits : i <= j) - 1

SplitN2(s, sep) ==
    LET i == Index(s, sep)
    IN  IF i < 0 THEN <<s>>
        ELSE <<SubSeq(s, 1, i), SubSeq(s, i + Len(sep) + 1, Len(s))>>

RECURSIVE TrimLeft(_)
TrimLeft(s) == IF s # <<>> /\ Head(s) = " " THEN TrimLeft(Tail(s)) ELSE s

RECURSIVE TrimRight(_)
TrimRight(s) ==
    IF s # <<>> /\ s[Len(s)] = " " THEN TrimRight(SubSeq(s, 1, Len(s) - 1)) ELSE s

TrimSpace(s) == TrimRight(TrimLeft(s))

(***************************************************************************)
(* FetchTrack and GetTrack.                                                *)
(***************************************************************************)
Separator == <<" ", "-", " ">>

\* what ffprobe's tags can hold
\* a tag is absent (<<>>) or present with its value (<<value>>)
Tags ==
    { [StreamTitle |-> << <<"A", " ", "-", " ", "T">> >>, icy |-> <<>>],
      [StreamTitle |-> << <<"U">> >>, icy |-> << <<"S">> >>],
      [StreamTitle |-> <<>>, icy |-> << <<"S">> >>],
      [StreamTitle |-> <<>>, icy |-> <<>>] }

\* cmd.Output() fails or times out, json.Unmarshal fails, or the tags
ProbeOutputs ==
    {[err |-> e, tags |-> <<>>] : e \in {"fail", "unparsable"}}
    \cup {[err |-> None, tags |-> <<tg>>] : tg \in Tags}

\* the assignments to v.track that FetchTrack makes under the lock, in order
TrackWrites(tags) ==
    IF tags.StreamTitle # <<>>
    THEN LET title == tags.StreamTitle[1]
             parts == SplitN2(title, Separator)
         IN  <<[field |-> "Raw", value |-> title]>> \o
             (IF Len(parts) = 2
              THEN << [field |-> "Artist", value |-> TrimSpace(parts[1])],
                      [field |-> "Title", value |-> TrimSpace(parts[2])] >>
              ELSE << [field |-> "Title", value |-> title],
                      [field |-> "Artist", value |-> <<>>] >>)
    ELSE IF tags.icy # <<>>
    THEN << [field |-> "Raw", value |-> tags.icy[1]],
            [field |-> "Title", value |-> tags.icy[1]] >>
    ELSE <<>>

\* a FetchTrack is between its Lock and its last assignment to v.track
Writing(t) == tpc[t] = "write" /\ pending[t] # <<>>

\* what a read of v.track can give: v.track, or, when it races with a
\* FetchTrack's writes, any mix of fields written and not yet written
TrackReads ==
    IF \E w \in Fetchers : Writing(w)
    THEN [Title : {track.Title, tbase.Title}, Artist : {track.Artist, tbase.Artist},
          Raw : {track.Raw, tbase.Raw}]
    ELSE {track}

\* FetchTrack: if v.streamURL == ""
FetchStart(t) ==
    /\ tpc[t] = "idle"
    /\ tpc' = [tpc EXCEPT ![t] = IF streamURL = <<>> THEN "return" ELSE "probe"]
    /\ tret' = [tret EXCEPT ![t] = <<>>]
    /\ UNCHANGED <<ctorVars, heap, streamURL, mu, cancelSet, running, ctxVars,
                   loopVars, histVars, cancVars, stopVars, readVars, track, probe,
                   pending, tbase>>

\* FetchTrack: cmd.Output() and json.Unmarshal
FetchProbe(t) ==
    /\ tpc[t] = "probe"
    /\ \E out \in ProbeOutputs :
          IF out.err = None
          THEN probe' = [probe EXCEPT ![t] = out.tags] /\ tpc' = [tpc EXCEPT ![t] = "lock"]
          ELSE probe' = probe /\ tpc' = [tpc EXCEPT ![t] = "failed"]
    /\ UNCHANGED <<ctorVars, heap, streamURL, mu, cancelSet, running, ctxVars,
                   loopVars, histVars, cancVars, stopVars, readVars, track, tret,
                   pending, tbase>>

\* FetchTrack: return v.track, on the paths that took no lock
FetchReturnEarly(t) ==
    /\ tpc[t] \in {"return", "failed"}
    /\ \E got \in TrackReads : tret' = [tret EXCEPT ![t] = <<got>>]
    /\ tpc' = [tpc EXCEPT ![t] = "idle"]
    /\ UNCHANGED <<ctorVars, heap, streamURL, mu, cancelSet, running, ctxVars,
                   loopVars, histVars, cancVars, stopVars, readVars, track, probe,
                   pending, tbase>>

\* FetchTrack: v.mu.Lock()
FetchLock(t) ==
    /\ tpc[t] = "lock"
    /\ CanLock
    /\ mu' = Lock(t)
    /\ pending' = [pending EXCEPT ![t] = TrackWrites(probe[t][1])]
    /\ tbase' = track
    /\ tpc' = [tpc EXCEPT ![t] = "write"]
    /\ UNCHANGED <<ctorVars, heap, streamURL, cancelSet, running, ctxVars, loopVars,
                   histVars, cancVars, stopVars, readVars, track, probe, tret>>

\* FetchTrack: one assignment to a field of v.track
FetchWrite(t) ==
    /\ Writing(t)
    /\ track' = [track EXCEPT ![Head(pending[t]).field] = Head(pending[t]).value]
    /\ pending' = [pending EXCEPT ![t] = Tail(@)]
    /\ UNCHANGED <<ctorVars, heap, streamURL, mu, cancelSet, running, ctxVars,
                   loopVars, histVars, cancVars, stopVars, readVars, tpc, probe, tret,
                   tbase>>

\* FetchTrack: return v.track and the deferred v.mu.Unlock()
FetchReturn(t) ==
    /\ tpc[t] = "write" /\ pending[t] = <<>>
    /\ tret' = [tret EXCEPT ![t] = <<track>>]
    /\ mu' = Unlock
    /\ tpc' = [tpc EXCEPT ![t] = "idle"]
    /\ probe' = [probe EXCEPT ![t] = <<>>]
    /\ UNCHANGED <<ctorVars, heap, streamURL, cancelSet, running, ctxVars, loopVars,
                   histVars, cancVars, stopVars, readVars, track, pending, tbase>>

\* the call of GetTrack
GetTrackCall(t) ==
    /\ tpc[t] = "idle"
    /\ tret' = [tret EXCEPT ![t] = <<>>]
    /\ tpc' = [tpc EXCEPT ![t] = "call"]
    /\ UNCHANGED <<ctorVars, heap, streamURL, mu, cancelSet, running, ctxVars,
                   loopVars, histVars, cancVars, stopVars, readVars, track, probe,
                   pending, tbase>>

\* GetTrack: v.mu.RLock()
GetTrackRLock(t) ==
    /\ tpc[t] = "call"
    /\ CanRLock
    /\ mu' = RLock(t)
    /\ tpc' = [tpc EXCEPT ![t] = "locked"]
    /\ UNCHANGED <<ctorVars, heap, streamURL, cancelSet, running, ctxVars, loopVars,
                   histVars, cancVars, stopVars, readVars, track, probe, tret,
                   pending, tbase>>

\* GetTrack: return v.track and the deferred v.mu.RUnlock()
GetTrackReturn(t) ==
    /\ tpc[t] = "locked"
    /\ \E got \in TrackReads : tret' = [tret EXCEPT ![t] = <<got>>]
    /\ mu' = RUnlock(t)
    /\ tpc' = [tpc EXCEPT ![t] = "idle"]
    /\ UNCHANGED <<ctorVars, heap, streamURL, cancelSet, running, ctxVars, loopVars,
                   histVars, cancVars, stopVars, readVars, track, probe, pending,
                   tbase>>

GetNext == \E t \in Getters : GetTrackCall(t) \/ GetTrackRLock(t) \/ GetTrackReturn(t)

TrackNext ==
    \/ \E t \in Fetchers :
          \/ FetchStart(t)
          \/ FetchProbe(t)
          \/ FetchReturnEarly(t)
          \/ FetchLock(t)
          \/ FetchWrite(t)
          \/ FetchReturn(t)
    \/ GetNext

(***************************************************************************)
(* The metadata tasks beside a StartFromURL that has set the locator and   *)
(* launched the decoder, or has not been called yet.                       *)
(***************************************************************************)
InitTrack ==
    /\ constructed = TRUE
    /\ \E cfg \in LoopConfigs : cfg.SmoothFactor = FixedOne \div 2 /\ Fresh(cfg)

NextTrack ==
    \/ StartCancel("url")
    \/ StartFromURL
    \/ StdoutPipe
    \/ LaunchFfmpeg
    \/ TrackNext

SpecTrack == InitTrack /\ [][NextTrack]_vars

\* a task is at a read of v.track
ReadsTrack(t) == tpc[t] \in {"return", "failed", "locked"}

HoldsGuard(t) == mu.writer = t \/ t \in mu.readers

\* C5: the cached Track Info is read and written under the guard only, so
\* that no task is at a read of it while a FetchTrack is writing it.
C5_TrackGuarded ==
    /\ \A w \in Fetchers : Writing(w) => mu.writer = w
    /\ \A w \in Fetchers, t \in Fetchers \cup Getters :
          (t # w /\ Writing(w)) => (~ReadsTrack(t) /\ ~HoldsGuard(t))

(***************************************************************************)
(* The Frame Renderer over configurations and smoothed vectors: Render is  *)
(* called on a Visualizer whose smoothed vector holds arbitrary values.    *)
(***************************************************************************)
\* tallest canvas of the renderer specification
HeightIn == 6

\* values an element of v.smoothed can hold: 0, 1/4, 1/2 and 1
SmoothedValues == {0, FixedOne \div 4, FixedOne \div 2, FixedOne}

\* configs of the renderer specification; the glyph has one or two characters
RenderConfigs ==
    {[DefaultConfig EXCEPT !.Width = w, !.Height = h, !.BarSpacing = b,
                           !.Char = ch, !.Amplify = a, !.ShowStatus = st,
                           !.SampleRate = 8000, !.ChunkSize = ChunkIn, !.FPS = 25]
        : w \in 1..WidthIn, h \in 1..HeightIn, b \in {1, 2},
          ch \in {<<"#">>, <<"=", ">">>}, a \in {FixedOne, (5 * FixedOne) \div 2},
          st \in BOOLEAN}

InitRender ==
    /\ constructed = TRUE
    /\ \E cfg \in RenderConfigs :
          \E wf \in [1..cfg.Width -> SmoothedValues] :
              /\ newArg = cfg
              /\ config = New(cfg)
              /\ heap = [a \in {"smoothed"} \cup Readers |->
                           IF a = "smoothed" THEN wf ELSE <<>>]
              /\ committed = wf
    /\ Quiescent

SpecRender == InitRender /\ [][ReadNext]_vars

\* the two escape sequences renderFrame writes before the first row
FramePrefix == <<"ESC[2;0H", "ESC[?25l">>

\* what renderFrame wrote after the escape sequences
FrameBody(out) == SubSeq(out, Len(FramePrefix) + 1, Len(out))

\* the position of the first newline of s, 0 when it has none
FirstNewline(s) ==
    IF \E i \in 1..Len(s) : s[i] = "\n"
    THEN CHOOSE i \in 1..Len(s) :
            s[i] = "\n" /\ \A j \in 1..(i - 1) : s[j] # "\n"
    ELSE 0

\* the lines of s, each without its newline
RECURSIVE Lines(_)
Lines(s) ==
    IF s = <<>> THEN <<>>
    ELSE LET k == FirstNewline(s)
         IN  IF k = 0 THEN <<s>>
             ELSE <<SubSeq(s, 1, k - 1)>> \o Lines(SubSeq(s, k + 1, Len(s)))

\* out is cfg.Height newline-terminated rows of cfg.Width characters, and
\* one status line exactly when cfg.ShowStatus
WellFormedFrame(cfg, out) ==
    /\ Len(out) > Len(FramePrefix)
    /\ SubSeq(out, 1, Len(FramePrefix)) = FramePrefix
    /\ out[Len(out)] = "\n"
    /\ LET ls == Lines(FrameBody(out))
       IN  /\ Len(ls) = cfg.Height + (IF cfg.ShowStatus THEN 1 ELSE 0)
           /\ \A i \in 1..Len(ls) : i <= cfg.Height => Len(ls[i]) = cfg.Width
           /\ cfg.ShowStatus =>
                 /\ ls[Len(ls)] # <<>>
                 /\ ls[Len(ls)][1] = "Audio Visualizer | "

\* C11 as stated: for every glyph, whatever its length, every frame Render
\* returns is Height rows of exactly Width characters, each ended by a
\* newline, followed by one status line exactly when ShowStatus is set.
C11_FrameShapeAnyGlyph ==
    \A r \in Readers : rstr[r] # <<>> => WellFormedFrame(config, rstr[r])

\* C11, amended: for a glyph of exactly one character, every frame Render
\* returns is Height rows of exactly Width characters, each ended by a
\* newline, followed by one status line exactly when ShowStatus is set.
C11_FrameShape ==
    \A r \in Readers :
        (rstr[r] # <<>> /\ Len(config.Char) = 1) => WellFormedFrame(config, rstr[r])

\* Render returned a frame with a one-character glyph, gap columns, a bar
\* drawn and the status line
C11_Witness ==
    \E r \in Readers :
        /\ rstr[r] # <<>>
        /\ Len(config.Char) = 1
        /\ config.BarSpacing = 2
        /\ config.Width >= 2
        /\ config.ShowStatus
        /\ \E k \in 1..Len(rstr[r]) : rstr[r][k] = config.Char[1]

\* the midline row of the canvas
Midline(cfg) == cfg.Height \div 2

\* the claim of C12 about the vector wf rendered into out under cfg
BarsInRange(cfg, wf, out) ==
    /\ \A i \in 1..Len(wf) :
          /\ BarHeight(cfg, wf[i]) >= 0
          /\ BarHeight(cfg, wf[i]) <= Midline(cfg) - 1
    /\ \A v1, v2 \in SmoothedValues :
          v1 <= v2 => BarHeight(cfg, v1) <= BarHeight(cfg, v2)
    /\ LET ls == Lines(FrameBody(out))
       IN  \A i \in 1..Len(ls) : \A k \in 1..Len(ls[i]) :
              (i <= cfg.Height /\ ls[i][k] \in {cfg.Char[j] : j \in 1..Len(cfg.Char)})
                 => /\ i - 1 >= Midline(cfg) - (Midline(cfg) - 1)
                    /\ i - 1 <= Midline(cfg) + (Midline(cfg) - 1)

NoTags(t) ==
    /\ tpc[t] \in {"lock", "write"}
    /\ probe[t] # <<>>
    /\ probe[t][1].StreamTitle = <<>>
    /\ probe[t][1].icy = <<>>

\* tr after the assignments ws
RECURSIVE ApplyWrites(_, _)
ApplyWrites(tr, ws) ==
    IF ws = <<>> THEN tr
    ELSE ApplyWrites([tr EXCEPT ![Head(ws).field] = Head(ws).value], Tail(ws))

\* the values the cache holds between updates: what it holds now or, while
\* a FetchTrack is writing, what it held before and will hold after
CachedTracks ==
    IF \E w \in Fetchers : Writing(w)
    THEN {tbase} \cup {ApplyWrites(track, pending[w]) : w \in {x \in Fetchers : Writing(x)}}
    ELSE {track}

\* C13: a FetchTrack whose probe failed, timed out or gave an unparsable
\* payload returns the cached Track Info and leaves it as it was, and so
\* does one whose payload holds neither StreamTitle nor icy-name.
C13_FailedFetchKeepsTrack ==
    [][\A t \in Fetchers :
          /\ (tpc[t] = "failed" /\ tpc'[t] = "idle")
                => (tret'[t] \in {<<c>> : c \in CachedTracks} /\ track' = track)
          /\ (NoTags(t) /\ tpc'[t] # tpc[t]) => track' = track
          /\ (NoTags(t) /\ tpc'[t] = "idle") => tret'[t] = <<track>>]_vars

\* Title and Artist are what FetchTrack derives from raw
DerivedFromRaw(tr) ==
    LET parts == SplitN2(tr.Raw, Separator)
    IN  IF Len(parts) = 2
        THEN tr.Artist = TrimSpace(parts[1]) /\ tr.Title = TrimSpace(parts[2])
        ELSE tr.Title = tr.Raw /\ tr.Artist = <<>>

\* C18: once a fetch has stored a Raw value and no fetch is in the middle of
\* its writes, the cached Title and Artist are both derived from that Raw:
\* split at the first " - ", or Title = Raw and Artist empty.
C18_TrackDerivedFromRaw ==
    ((\A w \in Fetchers : ~Writing(w)) /\ track.Raw # <<>>) => DerivedFromRaw(track)

(***************************************************************************)
(* The Column Reducer over chunk sizes and widths: the stream loop started *)
(* from a reader, for every width up to the chunk size.                    *)
(***************************************************************************)
\* configs with Width <= ChunkSize, with and without a remainder
ReduceConfigs ==
    {[ZeroConfig EXCEPT !.Width = w, !.Height = 4, !.ChunkSize = n,
                        !.SmoothFactor = FixedOne \div 2, !.Amplify = FixedOne]
        : w \in 1..WidthIn, n \in 1..(ChunkIn + 1)}

InitReduce ==
    /\ constructed = TRUE
    /\ \E cfg \in ReduceConfigs : cfg.Width <= cfg.ChunkSize /\ Fresh(cfg)

NextReduce ==
    \/ StartCancel("reader")
    \/ StartFromReader
    \/ LoopCheck
    \/ ReadChunk
    \/ ReadFails
    \/ LoopLock
    \/ LoopSmooth
    \/ LoopUnlock
    \/ LoopRLock
    \/ LoopRender
    \/ LoopPrint
    \/ LoopSleep

SpecReduce == InitReduce /\ [][NextReduce]_vars

\* the columns whose span [start, end) holds sample i of a chunk of n samples
\* reduced to W columns
ColumnsOf(i, n, W) ==
    {c \in 0..(W - 1) :
        /\ ColumnStart(c, n \div W) <= i
        /\ i < ColumnEnd(c, n \div W, n)}

\* C14: when a chunk has been reduced with Width <= ChunkSize, every sample
\* index of the chunk lies in the span of exactly one column, and the last
\* column spans the ChunkSize - (Width - 1) x samplesPerColumn samples that
\* the others leave.
C14_SpansCoverChunk ==
    (pc = "lock" /\ Len(waveform) <= config.ChunkSize) =>
        LET n == config.ChunkSize
            W == Len(waveform)
        IN  /\ \A i \in 0..(n - 1) : Cardinality(ColumnsOf(i, n, W)) = 1
            /\ ColumnEnd(W - 1, n \div W, n) - ColumnStart(W - 1, n \div W)
                  = n - (W - 1) * (n \div W)

(***************************************************************************)
(* The guard between the stream loop and the reader accessors.  The loop   *)
(* is started from a reader whose Read may never return; a reader blocked  *)
(* behind the loop's Lock is admitted when the loop unlocks.               *)
(***************************************************************************)
\* the steps of processStream other than the return of io.ReadFull
LoopSteps ==
    \/ LoopCheck
    \/ LoopLock
    \/ LoopSmooth
    \/ LoopUnlock
    \/ LoopRLock
    \/ LoopRender
    \/ LoopPrint
    \/ LoopSleep

NextGuard == NextReduce \/ ReadNext \/ GetNext

\* a canvas of one column fed by chunks of one sample
InitGuard ==
    /\ constructed = TRUE
    /\ Fresh([ZeroConfig EXCEPT !.Width = 1, !.Height = 4, !.ChunkSize = 1,
                                !.SmoothFactor = FixedOne \div 2,
                                !.Amplify = FixedOne])

FairGuard ==
    /\ InitGuard
    /\ [][NextGuard]_vars
    /\ WF_vars(LoopSteps)
    /\ \A r \in Readers :
          SF_vars(ReaderRLock(r)) /\ WF_vars(ReaderRead(r) \/ ReaderReturn(r))
    /\ \A g \in Getters : SF_vars(GetTrackRLock(g)) /\ WF_vars(GetTrackReturn(g))

\* the loop holds the guard exclusively exactly from its Lock to its Unlock
\* and shared exactly inside Render
LoopGuardUse ==
    /\ mu.writer = LoopTask <=> pc \in {"smooth", "unlock"}
    /\ LoopTask \in mu.readers <=> pc = "rendering"
    /\ ~(mu.writer = LoopTask /\ LoopTask \in mu.readers)

\* C15: the loop holds the guard only while it smooths (exclusive) and while
\* it renders (shared), never while it waits for the byte source or sleeps;
\* and every call of GetWaveform, Render or GetTrack acquires the guard and
\* returns, even if the byte source never delivers.
C15_ReadersNotStarved ==
    /\ []LoopGuardUse
    /\ \A r \in Readers : (rpc[r] = "call") ~> (rpc[r] = "idle")
    /\ \A g \in Getters : (tpc[g] = "call") ~> (tpc[g] = "idle")

\* a reader's call waits while the loop holds the guard for its update
C15_Witness ==
    \E r \in Readers : rpc[r] = "call" /\ mu.writer = LoopTask /\ pc = "smooth"

(***************************************************************************)
(* Updates and frames of the stream loop.                                  *)
(***************************************************************************)
\* the loop has completed an update whose frame it has not printed yet
FrameOwed == pc \in {"unlock", "render", "rendering", "print"}

\* C16: an iteration that read a full chunk makes one smoothing update and
\* then prints one frame, which renders the vector that update produced;
\* the frames printed are as many as the updates completed, or one fewer
\* while the iteration's frame is still to be printed.
C16_OneUpdateOneFrame ==
    /\ frames = updates \/ frames = updates - 1
    /\ frames = updates - 1 <=> FrameOwed
    /\ pc = "print" => frame = renderFrame(config, committed)
    /\ (frames >= 1 /\ frames = updates) => stdout = renderFrame(config, committed)
    /\ FrameOwed \/ pc = "print" => Smoothed = committed

\* the second iteration's frame, rendering the second update's vector, is
\* about to be printed while a reader task is inside an accessor
C16_Witness ==
    /\ pc = "print"
    /\ updates = 2 /\ frames = 1
    /\ frame = renderFrame(config, committed)
    /\ frame # stdout
    /\ \E r \in Readers : rpc[r] # "idle"

(***************************************************************************)
(* v.running between the start operations, the stream loop and Stop.       *)
(***************************************************************************)
\* the task of the start operation is at an assignment to v.running:
\* v.running = true in StartFromReader / StartFromURL, or v.running = false
\* in processStream's cancellation branch
LoopWritesRunning == pc = "start" \/ (pc = "check" /\ ctxDone)

\* Stop is at its assignment v.running = false
StopWritesRunning(s) == spc[s] = "clear"

\* C17: the Run State flag is not shared unsynchronised: no task is at a
\* write of it while another task is at an access of it, unless both hold
\* the guard.
C17_RunStateNotShared ==
    \A s \in Stoppers :
        (LoopWritesRunning /\ StopWritesRunning(s))
            => (HoldsGuard(LoopTask) /\ HoldsGuard(s))

\* StartFromURL returned a startup error
StartupFailed == pc = "done" /\ outcome \in {"pipe_error", "launch_error"}

\* C19: when StartFromURL has returned a startup error, no read was issued,
\* no update and no frame were made, and IsRunning is false.
C19_StartupFailureNotRunning ==
    StartupFailed => (~readsDone /\ updates = 0 /\ frames = 0 /\ ~IsRunning)

====
